---- MODULE Spec2Model ----
(***************************************************************************)
(* Offline image cache of moetran-poprako (src-tauri/src/image_cache.rs,   *)
(* storage/cache_metadata.rs, storage.rs, lib.rs).                         *)
(*                                                                         *)
(* A URL is a sequence of lexical tokens ("a", ".png", "?", ...): the only *)
(* thing the code asks of a URL is ends_with / contains of an image suffix.*)
(* A file body is a sequence of bytes.  A cache directory is a function    *)
(* from file names <<index, ext>> to bodies.  The cached_projects table is *)
(* a set of rows.                                                          *)
(***************************************************************************)
EXTENDS Integers, Sequences, FiniteSets, TLC

VARIABLES
    dirs,       \* projects whose directory <DATA_DIR>/images/<project_id> exists
    disk,       \* [project -> [file name -> bytes]], the directory contents
    storeInit,  \* LOCAL_STORAGE.get() is Some
    db,         \* rows of table cached_projects
    calls,      \* [slot -> the command running (or last run) in that slot]
    faults,     \* failures the environment may still inject
    hist,       \* history: what has been done to each project so far
    MOETRAN_TOKEN,  \* static of token.rs: <<>> is None, <<t>> is Some(t)
    POPRAKO_TOKEN,  \* static of token.rs, likewise
    tokens,     \* rows of table tokens
    tcalls,     \* [slot -> the token command running (or last run) in that slot]
    guards,     \* the WarnDefer values created so far
    log         \* the warnings WarnDefer has emitted, oldest first

\* The state outside the image cache
others == <<MOETRAN_TOKEN, POPRAKO_TOKEN, tokens, tcalls, guards, log>>

vars == <<dirs, disk, storeInit, db, calls, faults, hist, others>>

-----------------------------------------------------------------------------
(* Program constants *)

MAX_RETRIES == 2
CONCURRENT_DOWNLOADS == 5

(* Bounds of the model *)

MaxFiles == 2       \* longest file list of the sequential specification
MaxFaults == 1      \* failures injected per behaviour, sequential specification
MaxTime == 1        \* latest clock reading of the metadata specification
RetryFaults == 3    \* failures injected per behaviour, retry specification
StartupFiles == 1   \* longest file list of the start-up specification
StartupFaults == 1  \* failures injected per behaviour, start-up specification
SchedFaults == 1    \* failures injected per behaviour, fan-out specification
MaxUrlLen == 3      \* longest URL (in tokens) of the extension specification
PermitFaults == 3   \* failures injected per behaviour, admission specification
TokenFaults == 1    \* failures injected per behaviour, token specifications
MaxGuards == 3      \* WarnDefer values created per behaviour

\* The fan-out specification downloads one file more than the gate admits.
SchedFiles == CONCURRENT_DOWNLOADS + 1

-----------------------------------------------------------------------------
(* URLs, extensions, bodies *)

PngUrl == <<"a", ".png">>
JpgUrl == <<"b", ".jpg">>
BareUrl == <<"c">>

EndsWith(url, suffix) == Len(url) > 0 /\ url[Len(url)] = suffix

\* url.contains("<suffix>?")
ContainsQ(url, suffix) ==
    \E i \in 1..(Len(url) - 1) : url[i] = suffix /\ url[i + 1] = "?"

get_extension(url) ==
    IF EndsWith(url, ".png") \/ ContainsQ(url, ".png") THEN "png"
    ELSE IF EndsWith(url, ".jpg") \/ ContainsQ(url, ".jpg") THEN "jpg"
    ELSE IF EndsWith(url, ".jpeg") \/ ContainsQ(url, ".jpeg") THEN "jpeg"
    ELSE IF EndsWith(url, ".webp") \/ ContainsQ(url, ".webp") THEN "webp"
    ELSE "jpg"

get_content_type(ext) ==
    CASE ext = "png" -> "image/png"
      [] ext \in {"jpg", "jpeg"} -> "image/jpeg"
      [] ext = "webp" -> "image/webp"
      [] OTHER -> "image/jpeg"

\* What moetran_get_raw(url) answers when it succeeds: the bytes the server
\* holds for that URL.
Body(url) ==
    IF url = PngUrl THEN <<137, 80>>
    ELSE IF url = JpgUrl THEN <<255>>
    ELSE <<71, 73, 70>>

\* (mutant) the index is left out of the file name
FilePathNoIndex(index, url) == <<0, get_extension(url)>>

\* cache_dir.join(format!("{}.{}", index, get_extension(url)))
FilePath(index, url) == <<index, get_extension(url)>>

NoFiles == [n \in {} |-> <<>>]

Indices(files) == 0..(Len(files) - 1)

\* files[i] of the Rust Vec (0-based)
At(files, i) == files[i + 1]

RECURSIVE SumLen(_, _)
SumLen(dir, names) ==
    IF names = {} THEN 0
    ELSE LET n == CHOOSE x \in names : TRUE
         IN  Len(dir[n]) + SumLen(dir, names \ {n})

-----------------------------------------------------------------------------
(* Commands and their slots *)

NoProj == "none"

\* History kept per project: the file list and result of the last
\* download_project_files that returned, if nothing has touched the project since.
NoPrev == [files |-> <<>>, ret |-> "none"]

IdleCall ==
    [op |-> "idle", pc |-> "done", proj |-> NoProj, name |-> "", files |-> <<>>,
     units |-> [i \in {} |-> 0], permits |-> 0, joined |-> {},
     download_failed |-> FALSE, file_count |-> 0, total_size_bytes |-> 0,
     cached_at |-> 0, ret |-> "none", index |-> 0, out |-> <<>>,
     before |-> NoFiles, prev |-> NoPrev, wrote |-> FALSE, replaced |-> {}]

NewUnit == [st |-> "waiting", att |-> 0, slept |-> 0]

Running == {"fetch", "write", "sleep"}
Terminal == {"ok", "err", "aborted"}

Free(c) == calls[c].pc = "done"

\* One injected failure is spent whenever an outcome is not "ok".
Inject(outcome) ==
    /\ outcome # "ok" => faults > 0
    /\ faults' = IF outcome = "ok" THEN faults ELSE faults - 1

Min(S) == CHOOSE x \in S : \A y \in S : x <= y

-----------------------------------------------------------------------------
(* download_project_files *)

\* (mutant) the scan skips every index
FilesToDownloadNone(p, files) == {}

\* (mutant) the existence check is dropped: every index is downloaded again
FilesToDownloadAll(p, files) == Indices(files)

\* files_to_download: the indices whose expected path does not exist
FilesToDownload(p, files) ==
    {i \in Indices(files) : FilePath(i, At(files, i)) \notin DOMAIN disk[p]}

SemaphoreNew == CONCURRENT_DOWNLOADS

\* (mutant) the result of create_dir_all is ignored
AfterCreateDirIgnored(outcome) == "scan"

\* create_dir_all(...).map_err(...)?: where the command goes next
AfterCreateDir(outcome) == IF outcome = "ok" THEN "scan" ELSE "done"

\* Entry and create_dir_all; on failure the command returns at once.
download_project_files(c, p, name, files, outcome) ==
    /\ Free(c)
    /\ outcome \in {"ok", "mkdir_err"}
    /\ Inject(outcome)
    /\ calls' = [calls EXCEPT ![c] =
            [IdleCall EXCEPT !.op = "download", !.proj = p, !.name = name,
                             !.files = files, !.before = disk[p],
                             !.prev = hist[p].prev,
                             !.pc = AfterCreateDir(outcome),
                             !.ret = IF outcome = "ok" THEN "none" ELSE "err_mkdir"]]
    /\ dirs' = IF outcome = "ok" THEN dirs \cup {p} ELSE dirs
    /\ hist' = [hist EXCEPT ![p].deleted = FALSE]
    /\ UNCHANGED <<disk, storeInit, db, others>>

\* The existence scan and the spawning of one task per file to download.
dpf_scan(c) ==
    LET call == calls[c]
        todo == FilesToDownload(call.proj, call.files)
    IN  /\ call.op = "download" /\ call.pc = "scan"
        /\ calls' = [calls EXCEPT ![c].units = [i \in todo |-> NewUnit],
                                  ![c].permits = SemaphoreNew,
                                  ![c].pc = IF todo = {} THEN "count" ELSE "join"]
        /\ UNCHANGED <<dirs, disk, storeInit, db, faults, hist, others>>

\* (mutant) the permit is given back when an attempt fails, before the delay
ReleaseOnFailure(u, permits) ==
    IF u.st \in Terminal \cup {"sleep"} THEN permits + 1 ELSE permits

\* (mutant) an off-by-one admission test
CanAcquireOffByOne(c) == calls[c].permits >= 0

CanAcquire(c) == calls[c].permits > 0

\* let _permit = sem.acquire().await.unwrap(); then the first download_file
unit_acquire(c, i) ==
    /\ calls[c].op = "download" /\ i \in DOMAIN calls[c].units
    /\ calls[c].units[i].st = "waiting"
    /\ CanAcquire(c)
    /\ calls' = [calls EXCEPT ![c].units[i] = [@ EXCEPT !.st = "fetch", !.att = 1],
                              ![c].permits = @ - 1]
    /\ UNCHANGED <<dirs, disk, storeInit, db, faults, hist, others>>

\* (mutant) one retry too many
AfterFailureExtraRetry(u) ==
    IF u.att - 1 <= MAX_RETRIES
    THEN [u EXCEPT !.st = "sleep", !.slept = @ + 1]
    ELSE [u EXCEPT !.st = "err"]

\* The Err arm of download_file_with_retry, after attempt number u.att failed.
AfterFailure(u) ==
    IF u.att - 1 < MAX_RETRIES
    THEN [u EXCEPT !.st = "sleep", !.slept = @ + 1]
    ELSE [u EXCEPT !.st = "err"]

\* Dropping _permit when the task ends.
Release(u, permits) == IF u.st \in Terminal THEN permits + 1 ELSE permits

\* download_file up to File::create: moetran_get_raw answers, the file is created
\* empty (or truncated).  File::create in a directory that is gone fails by
\* itself: that failure is not one the environment has to inject.
unit_fetch(c, i, outcome) ==
    LET call == calls[c]
        p == call.proj
        path == FilePath(i, At(call.files, i))
        u == call.units[i]
        v == IF outcome = "ok" THEN [u EXCEPT !.st = "write"] ELSE AfterFailure(u)
    IN  /\ call.op = "download" /\ i \in DOMAIN call.units
        /\ u.st = "fetch"
        /\ outcome \in {"ok", "fetch_err", "create_err"}
        /\ p \notin dirs => outcome # "ok"
        /\ IF p \notin dirs /\ outcome = "create_err"
           THEN faults' = faults
           ELSE Inject(outcome)
        /\ calls' = [calls EXCEPT ![c].units[i] = v,
                                  ![c].permits = Release(v, @)]
        /\ disk' = IF outcome = "ok"
                   THEN [disk EXCEPT ![p] =
                            [n \in DOMAIN @ \cup {path} |-> IF n = path THEN <<>> ELSE @[n]]]
                   ELSE disk
        /\ UNCHANGED <<dirs, storeInit, db, hist, others>>

\* file.write_all(&data): all bytes, or on failure the first k of them.
unit_write(c, i, outcome, k) ==
    LET call == calls[c]
        p == call.proj
        path == FilePath(i, At(call.files, i))
        data == Body(At(call.files, i))
        u == call.units[i]
        v == IF outcome = "ok" THEN [u EXCEPT !.st = "ok"] ELSE AfterFailure(u)
        written == IF outcome = "ok" THEN data ELSE SubSeq(data, 1, k)
    IN  /\ call.op = "download" /\ i \in DOMAIN call.units
        /\ u.st = "write"
        /\ outcome \in {"ok", "write_err"}
        /\ k \in 0..(Len(data) - 1)
        /\ outcome = "ok" => k = 0
        /\ Inject(outcome)
        /\ calls' = [calls EXCEPT ![c].units[i] = v,
                                  ![c].permits = Release(v, @)]
        /\ disk' = IF path \in DOMAIN disk[p]
                   THEN [disk EXCEPT ![p][path] = written]
                   ELSE disk
        /\ UNCHANGED <<dirs, storeInit, db, hist, others>>

\* tokio::time::sleep(500 ms) is over: the next attempt starts.
unit_wake(c, i) ==
    /\ calls[c].op = "download" /\ i \in DOMAIN calls[c].units
    /\ calls[c].units[i].st = "sleep"
    /\ calls' = [calls EXCEPT ![c].units[i] = [@ EXCEPT !.st = "fetch", !.att = @ + 1]]
    /\ UNCHANGED <<dirs, disk, storeInit, db, faults, hist, others>>

\* (mutant) the permit of a task that ends abnormally is never given back
KeepOnAbort(u, permits) == permits

\* Dropping _permit when the task's future is dropped: only a task that had
\* acquired one gives it back.
ReleaseOnAbort(u, permits) == IF u.st \in Running THEN permits + 1 ELSE permits

\* The spawned task panics or is cancelled: its JoinHandle will answer Err.
unit_abort(c, i) ==
    LET u == calls[c].units[i]
    IN  /\ calls[c].op = "download" /\ i \in DOMAIN calls[c].units
        /\ u.st \in Running \cup {"waiting"}
        /\ Inject("abort")
        /\ calls' = [calls EXCEPT ![c].units[i] = [@ EXCEPT !.st = "aborted"],
                                  ![c].permits = ReleaseOnAbort(u, @)]
        /\ UNCHANGED <<dirs, disk, storeInit, db, hist, others>>

\* (mutant) the Err(JoinError) arm does not set download_failed
FailedOnlyErr(u) == u.st = "err"

\* The outcome arm of `match task.await`: does this unit set download_failed?
Failed(u) == u.st # "ok"

\* (mutant) the loop ends after the first task
JoinedFirst(joined, todo) == joined # {}

\* (mutant) the loop ends at the first failed task
JoinedAllOrFailed(joined, todo) ==
    joined = todo \/ \E c \in DOMAIN calls : \E i \in joined :
        i \in DOMAIN calls[c].units /\ calls[c].units[i].st # "ok"

\* All tasks have been awaited.
JoinedAll(joined, todo) == joined = todo

\* One iteration of `for task in tasks { match task.await ... }`.
dpf_join(c) ==
    LET call == calls[c]
        todo == DOMAIN call.units
        i == Min(todo \ call.joined)
        j == call.joined \cup {i}
    IN  /\ call.op = "download" /\ call.pc = "join"
        /\ call.units[i].st \in Terminal
        /\ calls' = [calls EXCEPT ![c].joined = j,
                                  ![c].download_failed = @ \/ Failed(call.units[i]),
                                  ![c].pc = IF JoinedAll(j, todo) THEN "count" ELSE "join"]
        /\ UNCHANGED <<dirs, disk, storeInit, db, faults, hist, others>>

\* The indices the size loop counts: expected paths that exist.
Counted(p, files) ==
    {i \in Indices(files) : FilePath(i, At(files, i)) \in DOMAIN disk[p]}

\* The size loop, status and cached_at (t is SystemTime::now()).
dpf_count(c, t) ==
    LET call == calls[c]
        p == call.proj
        counted == {FilePath(i, At(call.files, i)) : i \in Counted(p, call.files)}
    IN  /\ call.op = "download" /\ call.pc = "count"
        /\ calls' = [calls EXCEPT ![c].file_count = Cardinality(counted),
                                  ![c].total_size_bytes = SumLen(disk[p], counted),
                                  ![c].cached_at = t,
                                  ![c].pc = "upsert"]
        /\ UNCHANGED <<dirs, disk, storeInit, db, faults, hist, others>>

\* (mutant) project_name is missing from the DO UPDATE SET list
upsert_keeps_name(rows, r) ==
    IF \E x \in rows : x.project_id = r.project_id
    THEN {IF x.project_id = r.project_id
          THEN [r EXCEPT !.project_name = x.project_name]
          ELSE x : x \in rows}
    ELSE rows \cup {r}

\* INSERT ... ON CONFLICT(project_id) DO UPDATE SET project_name, status,
\* file_count, total_size_bytes, cached_at = excluded.<the same column>
upsert_cached_project(rows, r) ==
    IF \E x \in rows : x.project_id = r.project_id
    THEN {IF x.project_id = r.project_id
          THEN [x EXCEPT !.project_name = r.project_name,
                         !.status = r.status,
                         !.file_count = r.file_count,
                         !.total_size_bytes = r.total_size_bytes,
                         !.cached_at = r.cached_at]
          ELSE x : x \in rows}
    ELSE rows \cup {r}

\* (mutant) the WHERE clause is dropped
delete_all_metadata(rows, p) == {}

\* DELETE FROM cached_projects WHERE project_id = ?
delete_cached_project_metadata(rows, p) == {x \in rows : x.project_id # p}

\* SELECT ... WHERE project_id = ?  (fetch_optional: no row is None)
get_cached_project_metadata(rows, p) == {x \in rows : x.project_id = p}

\* (mutant) the final check of download_failed is dropped
OutcomeAlwaysOk(download_failed) == "ok"

\* The value the command returns once the store has been dealt with.
Outcome(download_failed) == IF download_failed THEN "err_partial" ELSE "ok"

\* status, the metadata row, the upsert (skipped while LOCAL_STORAGE is unset)
\* and the return.
dpf_upsert(c, outcome) ==
    LET call == calls[c]
        p == call.proj
        metadata == [project_id |-> p, project_name |-> call.name,
                     status |-> IF call.download_failed THEN "failed" ELSE "completed",
                     file_count |-> call.file_count,
                     total_size_bytes |-> call.total_size_bytes,
                     cached_at |-> call.cached_at]
        ret == IF outcome = "ok" THEN Outcome(call.download_failed) ELSE "err_db"
    IN  /\ call.op = "download" /\ call.pc = "upsert"
        /\ outcome \in {"ok", "db_err"}
        /\ ~storeInit => outcome = "ok"
        /\ Inject(outcome)
        /\ db' = IF storeInit /\ outcome = "ok"
                 THEN upsert_cached_project(db, metadata) ELSE db
        /\ calls' = [calls EXCEPT ![c].pc = "done", ![c].ret = ret,
                                  ![c].wrote = storeInit /\ outcome = "ok",
                                  ![c].replaced = get_cached_project_metadata(db, p)]
        /\ hist' = IF ret = "err_db" THEN hist
                   ELSE [hist EXCEPT ![p].attempted = TRUE,
                                     ![p].prev = [files |-> call.files, ret |-> ret]]
        /\ UNCHANGED <<dirs, disk, storeInit, others>>

-----------------------------------------------------------------------------
(* delete_file_cache *)

\* if cache_dir.exists() { remove_dir_all }: a failed removal may have removed
\* any part of the directory's contents (kept is what is left).
delete_file_cache(c, p, outcome, kept) ==
    /\ Free(c)
    /\ outcome \in {"ok", "rm_err"}
    /\ p \notin dirs => outcome = "ok"
    /\ kept \subseteq DOMAIN disk[p]
    /\ outcome = "ok" => kept = {}
    /\ Inject(outcome)
    /\ dirs' = IF outcome = "ok" THEN dirs \ {p} ELSE dirs
    /\ disk' = [disk EXCEPT ![p] = [n \in kept |-> @[n]]]
    /\ calls' = [calls EXCEPT ![c] =
            [IdleCall EXCEPT !.op = "delete", !.proj = p,
                             !.pc = IF outcome = "ok" THEN "delmeta" ELSE "done",
                             !.ret = IF outcome = "ok" THEN "none" ELSE "err_rm"]]
    /\ hist' = [hist EXCEPT ![p].prev = NoPrev]
    /\ UNCHANGED <<storeInit, db, others>>

\* The metadata delete (skipped while LOCAL_STORAGE is unset) and the return.
dfc_meta(c, outcome) ==
    LET p == calls[c].proj
    IN  /\ calls[c].op = "delete" /\ calls[c].pc = "delmeta"
        /\ outcome \in {"ok", "db_err"}
        /\ ~storeInit => outcome = "ok"
        /\ Inject(outcome)
        /\ db' = IF storeInit /\ outcome = "ok"
                 THEN delete_cached_project_metadata(db, p) ELSE db
        /\ calls' = [calls EXCEPT ![c].pc = "done",
                                  ![c].ret = IF outcome = "ok" THEN "ok" ELSE "err_db"]
        /\ hist' = IF outcome = "ok"
                   THEN [hist EXCEPT ![p] = [attempted |-> FALSE, deleted |-> TRUE,
                                             prev |-> NoPrev]]
                   ELSE hist
        /\ UNCHANGED <<dirs, disk, storeInit, others>>

-----------------------------------------------------------------------------
(* Start-up: the spawned LocalStorage::init sets LOCAL_STORAGE *)

LocalStorage_init ==
    /\ ~storeInit
    /\ storeInit' = TRUE
    /\ UNCHANGED <<dirs, disk, db, calls, faults, hist, others>>

-----------------------------------------------------------------------------
(* Reads *)

Pad == 64

\* base64 STANDARD: three bytes to four sextets, '=' (Pad) filling the last group
RECURSIVE Base64Encode(_)
Base64Encode(b) ==
    IF Len(b) = 0 THEN <<>>
    ELSE IF Len(b) = 1
         THEN <<b[1] \div 4, (b[1] % 4) * 16, Pad, Pad>>
    ELSE IF Len(b) = 2
         THEN <<b[1] \div 4, (b[1] % 4) * 16 + b[2] \div 16, (b[2] % 16) * 4, Pad>>
    ELSE <<b[1] \div 4, (b[1] % 4) * 16 + b[2] \div 16,
           (b[2] % 16) * 4 + b[3] \div 64, b[3] % 64>>
         \o Base64Encode(SubSeq(b, 4, Len(b)))

\* (mutant) the name of an entry is not compared with file_index
MatchesAnyIndex(p, i) == DOMAIN disk[p]

\* The directory entries load_cached_file accepts for file_index.
Matches(p, i) == {n \in DOMAIN disk[p] : n[1] = i}

\* What load_cached_file returns when name is the first matching entry met.
CachedFileData(p, name) ==
    [b64 |-> Base64Encode(disk[p][name]), content_type |-> get_content_type(name[2])]

\* (mutant) a directory without files counts as no cache
CacheDirNonEmpty(p) == p \in dirs /\ DOMAIN disk[p] # {}

\* cache_dir.exists()
CacheDirExists(p) == p \in dirs

\* (mutant) the directory is created while it is looked up
check_file_cache_creating(c, p) ==
    /\ Free(c)
    /\ calls' = [calls EXCEPT ![c] =
            [IdleCall EXCEPT !.op = "check", !.proj = p, !.ret = "ok",
                             !.out = <<CacheDirExists(p)>>]]
    /\ dirs' = dirs \cup {p}
    /\ UNCHANGED <<disk, storeInit, db, faults, hist, others>>

check_file_cache(c, p) ==
    /\ Free(c)
    /\ calls' = [calls EXCEPT ![c] =
            [IdleCall EXCEPT !.op = "check", !.proj = p, !.ret = "ok",
                             !.out = <<CacheDirExists(p)>>]]
    /\ UNCHANGED <<dirs, disk, storeInit, db, faults, hist, others>>

\* History kept in a read's record: what the same read returned when it was the
\* command run just before in the slot.
LastRead(c, op, p) ==
    [files |-> <<>>,
     ret |-> IF calls[c].op = op /\ calls[c].proj = p THEN calls[c].ret ELSE "none"]

\* (mutant) an unset LOCAL_STORAGE is answered as "no record"
CachedProjectInfoOrNone(p, outcome) ==
    IF ~storeInit \/ outcome = "ok"
    THEN [ret |-> "ok", out |-> IF storeInit THEN get_cached_project_metadata(db, p) ELSE {}]
    ELSE [ret |-> "err_db", out |-> {}]

\* What get_cached_project_info answers: ret and, when Ok, the rows found.
CachedProjectInfo(p, outcome) ==
    IF ~storeInit THEN [ret |-> "err_uninit", out |-> {}]
    ELSE IF outcome = "ok" THEN [ret |-> "ok", out |-> get_cached_project_metadata(db, p)]
    ELSE [ret |-> "err_db", out |-> {}]

get_cached_project_info(c, p, outcome) ==
    /\ Free(c)
    /\ outcome \in {"ok", "db_err"}
    /\ ~storeInit => outcome = "ok"
    /\ Inject(outcome)
    /\ calls' = [calls EXCEPT ![c] =
            [IdleCall EXCEPT !.op = "info", !.proj = p,
                !.ret = CachedProjectInfo(p, outcome).ret,
                !.out = CachedProjectInfo(p, outcome).out,
                !.prev = LastRead(c, "info", p)]]
    /\ UNCHANGED <<dirs, disk, storeInit, db, hist, others>>

\* The orders in which a query may enumerate rows.
Enumerations(rows) ==
    {s \in [1..Cardinality(rows) -> rows] : \A i, j \in DOMAIN s : s[i] = s[j] => i = j}

\* (mutant) the ORDER BY clause is dropped
get_all_cached_projects_unordered(rows) == Enumerations(rows)

\* SELECT ... ORDER BY cached_at DESC: the sequences the query may answer (rows
\* of equal cached_at come in either order).
get_all_cached_projects(rows) ==
    {s \in Enumerations(rows) :
        \A i \in 1..(Len(s) - 1) : s[i].cached_at >= s[i + 1].cached_at}

\* list is what the query answers.
get_all_cached_projects_list(c, outcome, list) ==
    /\ Free(c)
    /\ outcome \in {"ok", "db_err"}
    /\ ~storeInit => outcome = "ok"
    /\ list \in get_all_cached_projects(db)
    /\ Inject(outcome)
    /\ calls' = [calls EXCEPT ![c] =
            [IdleCall EXCEPT !.op = "list",
                !.ret = IF ~storeInit THEN "err_uninit"
                        ELSE IF outcome = "ok" THEN "ok" ELSE "err_db",
                !.out = IF storeInit /\ outcome = "ok" THEN list ELSE <<>>,
                !.prev = LastRead(c, "list", NoProj)]]
    /\ UNCHANGED <<dirs, disk, storeInit, db, hist, others>>

\* name is the entry the directory iteration yields first among the matching ones.
load_cached_file(c, p, i, name) ==
    /\ Free(c)
    /\ Matches(p, i) # {} => name \in Matches(p, i)
    /\ calls' = [calls EXCEPT ![c] =
            [IdleCall EXCEPT !.op = "load", !.proj = p, !.index = i,
                !.ret = IF p \notin dirs THEN "err_nodir"
                        ELSE IF Matches(p, i) = {} THEN "err_notfound" ELSE "ok",
                !.out = IF Matches(p, i) = {} THEN <<>>
                        ELSE <<CachedFileData(p, name)>>]]
    /\ UNCHANGED <<dirs, disk, storeInit, db, faults, hist, others>>

-----------------------------------------------------------------------------
(* Specifications *)

Projects == {"p1", "p2"}

NoHist == [attempted |-> FALSE, deleted |-> FALSE, prev |-> NoPrev]

\* What an earlier run of the program leaves behind after one completed
\* download_project_files("p1", "n", [PngUrl]).
PriorDisk == [n \in {FilePath(0, PngUrl)} |-> Body(PngUrl)]
PriorRow == [project_id |-> "p1", project_name |-> "n", status |-> "completed",
             file_count |-> 1, total_size_bytes |-> Len(Body(PngUrl)), cached_at |-> 0]

RECURSIVE Lists(_, _)
Lists(urls, n) ==
    IF n = 0 THEN {<<>>}
    ELSE LET shorter == Lists(urls, n - 1)
         IN  shorter \cup {Append(l, u) : l \in {x \in shorter : Len(x) = n - 1}, u \in urls}

\* The file lists of the commands: any of two URLs (of different extensions) at
\* index 0, PngUrl at the later indices.
MainLists(n) ==
    {l \in Lists({PngUrl, JpgUrl}, n) : \A i \in 2..Len(l) : l[i] = PngUrl}

\* The outcomes of download_file's steps
AnyFetch == {"ok", "fetch_err", "create_err"}
AnyWrite == {"ok", "write_err"}

\* The statics of token.rs as declared, no token command, no guard, nothing logged.
InitOthers ==
    /\ MOETRAN_TOKEN = <<>>
    /\ POPRAKO_TOKEN = <<>>
    /\ tokens = {}
    /\ tcalls = [c \in {} |-> 0]
    /\ guards = [g \in {} |-> 0]
    /\ log = <<>>

\* Sequential use: one command at a time on project p1, the store initialised,
\* the cache empty at first.
Init ==
    /\ calls = [c \in {1} |-> IdleCall]
    /\ storeInit = TRUE
    /\ faults = MaxFaults
    /\ dirs = {}
    /\ disk = [p \in Projects |-> NoFiles]
    /\ db = {}
    /\ hist = [p \in Projects |-> NoHist]
    /\ InitOthers

Steps(c, files, times, fetches, writes) ==
    \/ dpf_scan(c)
    \/ \E i \in Indices(files) : unit_acquire(c, i)
    \/ \E i \in Indices(files), o \in fetches : unit_fetch(c, i, o)
    \/ \E i \in Indices(files), o \in writes, k \in 0..2 : unit_write(c, i, o, k)
    \/ \E i \in Indices(files) : unit_wake(c, i)
    \/ \E i \in Indices(files) : unit_abort(c, i)
    \/ dpf_join(c)
    \/ \E t \in times : dpf_count(c, t)
    \/ \E o \in {"ok", "db_err"} : dpf_upsert(c, o)

Commands(lists, indices) ==
    \/ \E files \in lists, o \in {"ok", "mkdir_err"} :
          download_project_files(1, "p1", "n", files, o)
    \/ Steps(1, calls[1].files, {0}, AnyFetch, AnyWrite)
    \/ \E o \in {"ok", "rm_err"}, kept \in SUBSET DOMAIN disk["p1"] :
          delete_file_cache(1, "p1", o, kept)
    \/ \E o \in {"ok", "db_err"} : dfc_meta(1, o)
    \/ check_file_cache(1, "p1")
    \/ \E o \in {"ok", "db_err"} : get_cached_project_info(1, "p1", o)
    \/ \E o \in {"ok", "db_err"}, l \in get_all_cached_projects(db) :
          get_all_cached_projects_list(1, o, l)
    \/ \E i \in indices, n \in DOMAIN disk["p1"] \cup {<<0, "jpg">>} :
          load_cached_file(1, "p1", i, n)

Next == Commands(MainLists(MaxFiles), 0..(MaxFiles - 1))

Spec == Init /\ [][Next]_vars

\* Start-up: the same commands while the spawned LocalStorage::init has not yet
\* set LOCAL_STORAGE, possibly on top of the cache an earlier run left.
InitStartup ==
    /\ calls = [c \in {1} |-> IdleCall]
    /\ storeInit = FALSE
    /\ faults = StartupFaults
    /\ \E prior \in BOOLEAN :
          /\ dirs = IF prior THEN {"p1"} ELSE {}
          /\ disk = [p \in Projects |-> IF prior /\ p = "p1" THEN PriorDisk ELSE NoFiles]
          /\ db = IF prior THEN {PriorRow} ELSE {}
          /\ hist = [p \in Projects |-> IF prior /\ p = "p1"
                                        THEN [NoHist EXCEPT !.attempted = TRUE]
                                        ELSE NoHist]
    /\ InitOthers

NextStartup ==
    \/ Commands(MainLists(StartupFiles), 0..(StartupFiles - 1))
    \/ LocalStorage_init

SpecStartup == InitStartup /\ [][NextStartup]_vars

\* Fan-out: one download_project_files of SchedFiles files into an empty cache,
\* the store initialised; the injected failures are aborted tasks (no attempt
\* fails, so no unit ever sleeps and unit_wake is never enabled).
SchedList == [i \in 1..SchedFiles |-> PngUrl]

InitSched ==
    /\ calls = [c \in {1} |-> IdleCall]
    /\ storeInit = TRUE
    /\ faults = SchedFaults
    /\ dirs = {}
    /\ disk = [p \in Projects |-> NoFiles]
    /\ db = {}
    /\ hist = [p \in Projects |-> NoHist]
    /\ InitOthers

NextSched ==
    \/ /\ calls[1].op = "idle"
       /\ download_project_files(1, "p1", "n", SchedList, "ok")
    \/ dpf_scan(1)
    \/ \E i \in Indices(SchedList) : unit_acquire(1, i)
    \/ \E i \in Indices(SchedList) : unit_fetch(1, i, "ok")
    \/ \E i \in Indices(SchedList) : unit_write(1, i, "ok", 0)
    \/ \E i \in Indices(SchedList) : unit_abort(1, i)
    \/ dpf_join(1)
    \/ dpf_count(1, 0)
    \/ dpf_upsert(1, "ok")

SpecSched == InitSched /\ [][NextSched]_vars

\* The runtime keeps running every task that can run.
SpecSchedFair == SpecSched /\ WF_vars(NextSched)

\* Retries: download_project_files of two files into an empty cache, invoked
\* again after it returned, with enough injected failures to exhaust one file's
\* retries.
RetryList == <<PngUrl, JpgUrl>>

InitRetry ==
    /\ calls = [c \in {1} |-> IdleCall]
    /\ storeInit = TRUE
    /\ faults = RetryFaults
    /\ dirs = {}
    /\ disk = [p \in Projects |-> NoFiles]
    /\ db = {}
    /\ hist = [p \in Projects |-> NoHist]
    /\ InitOthers

NextRetry ==
    \/ download_project_files(1, "p1", "n", RetryList, "ok")
    \/ Steps(1, calls[1].files, {0}, AnyFetch, AnyWrite)

SpecRetry == InitRetry /\ [][NextRetry]_vars

\* Metadata: downloads of two projects under two names at different clock
\* readings, deletes and reads, with nothing failing.
MetaLists == {<<>>, <<PngUrl>>}

InitMeta ==
    /\ calls = [c \in {1} |-> IdleCall]
    /\ storeInit = TRUE
    /\ faults = 0
    /\ dirs = {}
    /\ disk = [p \in Projects |-> NoFiles]
    /\ db = {}
    /\ hist = [p \in Projects |-> NoHist]
    /\ InitOthers

NextMeta ==
    \/ \E p \in Projects, name \in {"n", "m"}, files \in MetaLists :
          download_project_files(1, p, name, files, "ok")
    \/ dpf_scan(1)
    \/ unit_acquire(1, 0)
    \/ unit_fetch(1, 0, "ok")
    \/ unit_write(1, 0, "ok", 0)
    \/ dpf_join(1)
    \/ \E t \in 0..MaxTime : dpf_count(1, t)
    \/ dpf_upsert(1, "ok")
    \/ \E p \in Projects : delete_file_cache(1, p, "ok", {})
    \/ dfc_meta(1, "ok")
    \/ \E p \in Projects : get_cached_project_info(1, p, "ok")
    \/ \E l \in get_all_cached_projects(db) : get_all_cached_projects_list(1, "ok", l)

SpecMeta == InitMeta /\ [][NextMeta]_vars

\* Two projects at once: slot 1 runs commands on p1 while slot 2 runs commands on
\* p2, in any interleaving, with nothing failing.
ProjectOf(c) == IF c = 1 THEN "p1" ELSE "p2"

InitIso ==
    /\ calls = [c \in {1, 2} |-> IdleCall]
    /\ storeInit = TRUE
    /\ faults = 0
    /\ dirs = {}
    /\ disk = [p \in Projects |-> NoFiles]
    /\ db = {}
    /\ hist = [p \in Projects |-> NoHist]
    /\ InitOthers

NextIso ==
    \E c \in {1, 2} :
        \/ \E files \in MetaLists : download_project_files(c, ProjectOf(c), "n", files, "ok")
        \/ dpf_scan(c)
        \/ unit_acquire(c, 0)
        \/ unit_fetch(c, 0, "ok")
        \/ unit_write(c, 0, "ok", 0)
        \/ dpf_join(c)
        \/ dpf_count(c, 0)
        \/ dpf_upsert(c, "ok")
        \/ delete_file_cache(c, ProjectOf(c), "ok", {})
        \/ dfc_meta(c, "ok")
        \/ load_cached_file(c, ProjectOf(c), 0, <<0, "png">>)

SpecIso == InitIso /\ [][NextIso]_vars

\* Extensions: one download_project_files of a single file whose URL is any
\* sequence of at most MaxUrlLen tokens, with nothing failing.
UrlTokens == {"a", ".png", ".jpg", ".jpeg", ".webp", "?"}

Urls == Lists(UrlTokens, MaxUrlLen)

InitExt ==
    /\ calls = [c \in {1} |-> IdleCall]
    /\ storeInit = TRUE
    /\ faults = 0
    /\ dirs = {}
    /\ disk = [p \in Projects |-> NoFiles]
    /\ db = {}
    /\ hist = [p \in Projects |-> NoHist]
    /\ InitOthers

NextExt ==
    \/ /\ calls[1].op = "idle"
       /\ \E url \in Urls : download_project_files(1, "p1", "n", <<url>>, "ok")
    \/ dpf_scan(1)
    \/ unit_acquire(1, 0)
    \/ unit_fetch(1, 0, "ok")
    \/ unit_write(1, 0, "ok", 0)
    \/ dpf_join(1)
    \/ dpf_count(1, 0)
    \/ dpf_upsert(1, "ok")

SpecExt == InitExt /\ [][NextExt]_vars

\* Admission: one download_project_files of SchedFiles files into an empty cache
\* in which the server fails the fetches of index 0 only, as often as the budget
\* allows.
InitPermit ==
    /\ calls = [c \in {1} |-> IdleCall]
    /\ storeInit = TRUE
    /\ faults = PermitFaults
    /\ dirs = {}
    /\ disk = [p \in Projects |-> NoFiles]
    /\ db = {}
    /\ hist = [p \in Projects |-> NoHist]
    /\ InitOthers

NextPermit ==
    \/ /\ calls[1].op = "idle"
       /\ download_project_files(1, "p1", "n", SchedList, "ok")
    \/ dpf_scan(1)
    \/ \E i \in Indices(SchedList) : unit_acquire(1, i)
    \/ \E i \in Indices(SchedList) : unit_fetch(1, i, "ok")
    \/ unit_fetch(1, 0, "fetch_err")
    \/ \E i \in Indices(SchedList) : unit_write(1, i, "ok", 0)
    \/ unit_wake(1, 0)
    \/ dpf_join(1)
    \/ dpf_count(1, 0)
    \/ dpf_upsert(1, "ok")

SpecPermit == InitPermit /\ [][NextPermit]_vars

\* The runtime keeps running every task that can run.
SpecPermitFair == SpecPermit /\ WF_vars(NextPermit)

\* Races on one project: slot 1 runs one download_project_files of RaceList on
\* p1 while slot 2 runs, on the same project, one download_project_files of the
\* same list, one delete_file_cache, or load_cached_file calls; the server and
\* the store never fail.
RaceList == <<PngUrl, JpgUrl>>

InitRace ==
    /\ calls = [c \in {1, 2} |-> IdleCall]
    /\ storeInit = TRUE
    /\ faults = 0
    /\ dirs = {}
    /\ disk = [p \in Projects |-> NoFiles]
    /\ db = {}
    /\ hist = [p \in Projects |-> NoHist]
    /\ InitOthers

NextRace ==
    \/ \E c \in {1, 2} :
          /\ calls[c].op = "idle"
          /\ download_project_files(c, "p1", "n", RaceList, "ok")
    \/ \E c \in {1, 2} :
          \/ dpf_scan(c)
          \/ \E i \in Indices(RaceList) : unit_acquire(c, i)
          \/ \E i \in Indices(RaceList), o \in {"ok", "create_err"} : unit_fetch(c, i, o)
          \/ \E i \in Indices(RaceList) : unit_write(c, i, "ok", 0)
          \/ \E i \in Indices(RaceList) : unit_wake(c, i)
          \/ dpf_join(c)
          \/ dpf_count(c, 0)
          \/ dpf_upsert(c, "ok")
    \/ /\ calls[2].op = "idle"
       /\ delete_file_cache(2, "p1", "ok", {})
    \/ dfc_meta(2, "ok")
    \/ /\ calls[2].op \in {"idle", "load"}
       /\ \E i \in Indices(RaceList), n \in DOMAIN disk["p1"] \cup {<<0, "jpg">>} :
             load_cached_file(2, "p1", i, n)

SpecRace == InitRace /\ [][NextRace]_vars

-----------------------------------------------------------------------------
(* The token cache (token.rs, storage/token.rs) *)

\* The image cache's part of the state
cache == <<dirs, disk, db, calls, hist>>

TokenNames == {"moetran_token", "poprako_token"}

\* CREATE TABLE IF NOT EXISTS tokens (name TEXT PRIMARY KEY, token, updated_at)
TokenColumns == {"name", "token", "updated_at"}
PrimaryKey == {"name"}

\* The statements of storage/token.rs: the columns they name and their conflict
\* target.
SelectToken(name) ==
    [columns |-> IF name = "moetran_token" THEN {"moetoken", "name"} ELSE {"token", "name"},
     conflict |-> {}]
InsertToken(name) == [columns |-> {"name", "token", "updated_at"}, conflict |-> {"id"}]
DeleteToken(name) == [columns |-> {"name"}, conflict |-> {}]

\* SQLite accepts a statement when every column it names is a column of the
\* table and its ON CONFLICT target, if any, is the primary key.
Prepares(stmt) ==
    /\ stmt.columns \cup stmt.conflict \subseteq TokenColumns
    /\ stmt.conflict \in {{}, PrimaryKey}

\* storage_token::get_*_token: Ok(token) of the row, Err when the query fails
\* or finds no row.
storage_token_get_token(rows, name, outcome) ==
    LET found == {r \in rows : r.name = name}
    IN  IF outcome = "ok" /\ Prepares(SelectToken(name)) /\ found # {}
        THEN <<(CHOOSE r \in found : TRUE).token>>
        ELSE <<>>

\* storage_token::save_*_token when its statement runs
storage_token_save_token(rows, name, t) ==
    {r \in rows : r.name # name} \cup {[name |-> name, token |-> t]}

\* storage_token::remove_*_token when its statement runs
storage_token_remove_token(rows, name) == {r \in rows : r.name # name}

None == <<>>
Some(t) == <<t>>

\* The static a command works on
Static(name) == IF name = "moetran_token" THEN MOETRAN_TOKEN ELSE POPRAKO_TOKEN

\* *guard = v
SetStatic(name, v) ==
    /\ MOETRAN_TOKEN' = IF name = "moetran_token" THEN v ELSE MOETRAN_TOKEN
    /\ POPRAKO_TOKEN' = IF name = "poprako_token" THEN v ELSE POPRAKO_TOKEN

\* cached_moetran_token / cached_poprako_token
cached_token(name) == Static(name)

\* A token command: before is the static when the command was entered, queried
\* whether it has run a statement.
IdleTokenCall ==
    [op |-> "idle", pc |-> "done", name |-> "", token |-> "", row |-> None,
     ret |-> "none", out |-> None, before |-> None, queried |-> FALSE]

TokenFree(c) == tcalls[c].pc = "done"

\* get_*_token up to the query: the static is answered when it is Some.
get_token(c, name) ==
    /\ TokenFree(c)
    /\ tcalls' = [tcalls EXCEPT ![c] =
            [IdleTokenCall EXCEPT
                !.op = "get", !.name = name, !.before = Static(name),
                !.pc = IF Static(name) # None \/ ~storeInit THEN "done" ELSE "query",
                !.ret = IF Static(name) # None THEN "ok"
                        ELSE IF ~storeInit THEN "err_uninit" ELSE "none",
                !.out = Static(name)]]
    /\ UNCHANGED <<cache, storeInit, faults, MOETRAN_TOKEN, POPRAKO_TOKEN, tokens, guards, log>>

\* storage_token::get_*_token(...).await; Err(_) => Ok(None)
get_token_query(c, outcome) ==
    LET call == tcalls[c]
        token == storage_token_get_token(tokens, call.name, outcome)
    IN  /\ call.op = "get" /\ call.pc = "query"
        /\ outcome \in {"ok", "db_err"}
        /\ Inject(outcome)
        /\ tcalls' = [tcalls EXCEPT ![c].queried = TRUE,
                                    ![c].row = token,
                                    ![c].pc = IF token = None THEN "done" ELSE "store",
                                    ![c].ret = IF token = None THEN "ok" ELSE "none"]
        /\ UNCHANGED <<cache, storeInit, MOETRAN_TOKEN, POPRAKO_TOKEN, tokens, guards, log>>

\* *guard = Some(token.clone()); Ok(Some(token))
get_token_store(c) ==
    LET call == tcalls[c]
    IN  /\ call.op = "get" /\ call.pc = "store"
        /\ SetStatic(call.name, call.row)
        /\ tcalls' = [tcalls EXCEPT ![c].pc = "done", ![c].ret = "ok", ![c].out = call.row]
        /\ UNCHANGED <<cache, storeInit, faults, tokens, guards, log>>

\* save_*_token up to the statement
save_token(c, name, t) ==
    /\ TokenFree(c)
    /\ tcalls' = [tcalls EXCEPT ![c] =
            [IdleTokenCall EXCEPT
                !.op = "save", !.name = name, !.token = t, !.before = Static(name),
                !.pc = IF storeInit THEN "query" ELSE "done",
                !.ret = IF storeInit THEN "none" ELSE "err_uninit"]]
    /\ UNCHANGED <<cache, storeInit, faults, MOETRAN_TOKEN, POPRAKO_TOKEN, tokens, guards, log>>

\* storage_token::save_*_token(...).await?: where the command goes next
AfterSave(accepted) == IF accepted THEN "store" ELSE "done"

\* storage_token::save_*_token(...).await?  (ret err_db: the database failed;
\* err_sql: it rejected the statement)
save_token_query(c, outcome) ==
    LET call == tcalls[c]
        accepted == outcome = "ok" /\ Prepares(InsertToken(call.name))
    IN  /\ call.op = "save" /\ call.pc = "query"
        /\ outcome \in {"ok", "db_err"}
        /\ Inject(outcome)
        /\ tokens' = IF accepted
                     THEN storage_token_save_token(tokens, call.name, call.token)
                     ELSE tokens
        /\ tcalls' = [tcalls EXCEPT ![c].queried = TRUE,
                                    ![c].pc = AfterSave(accepted),
                                    ![c].ret = IF accepted THEN "none"
                                               ELSE IF outcome = "ok" THEN "err_sql"
                                               ELSE "err_db"]
        /\ UNCHANGED <<cache, storeInit, MOETRAN_TOKEN, POPRAKO_TOKEN, guards, log>>

\* *guard = Some(token); Ok(())
save_token_store(c) ==
    LET call == tcalls[c]
    IN  /\ call.op = "save" /\ call.pc = "store"
        /\ SetStatic(call.name, Some(call.token))
        /\ tcalls' = [tcalls EXCEPT ![c].pc = "done",
                                    ![c].ret = IF call.ret = "none" THEN "ok" ELSE call.ret]
        /\ UNCHANGED <<cache, storeInit, faults, tokens, guards, log>>

\* remove_*_token up to the statement
remove_token(c, name) ==
    /\ TokenFree(c)
    /\ tcalls' = [tcalls EXCEPT ![c] =
            [IdleTokenCall EXCEPT
                !.op = "remove", !.name = name, !.before = Static(name),
                !.pc = IF storeInit THEN "query" ELSE "done",
                !.ret = IF storeInit THEN "none" ELSE "err_uninit"]]
    /\ UNCHANGED <<cache, storeInit, faults, MOETRAN_TOKEN, POPRAKO_TOKEN, tokens, guards, log>>

\* storage_token::remove_*_token(...).await?
remove_token_query(c, outcome) ==
    LET call == tcalls[c]
        accepted == outcome = "ok" /\ Prepares(DeleteToken(call.name))
    IN  /\ call.op = "remove" /\ call.pc = "query"
        /\ outcome \in {"ok", "db_err"}
        /\ Inject(outcome)
        /\ tokens' = IF accepted
                     THEN storage_token_remove_token(tokens, call.name)
                     ELSE tokens
        /\ tcalls' = [tcalls EXCEPT ![c].queried = TRUE,
                                    ![c].pc = IF accepted THEN "store" ELSE "done",
                                    ![c].ret = IF accepted THEN "none"
                                               ELSE IF outcome = "ok" THEN "err_sql"
                                               ELSE "err_db"]
        /\ UNCHANGED <<cache, storeInit, MOETRAN_TOKEN, POPRAKO_TOKEN, guards, log>>

\* *guard = None; Ok(())
remove_token_store(c) ==
    LET call == tcalls[c]
    IN  /\ call.op = "remove" /\ call.pc = "store"
        /\ SetStatic(call.name, None)
        /\ tcalls' = [tcalls EXCEPT ![c].pc = "done", ![c].ret = "ok"]
        /\ UNCHANGED <<cache, storeInit, faults, tokens, guards, log>>

\* The tokens the front end saves
TokenValues == {"t1", "t2"}

\* The database file outlives the process and the installation (LocalStorage::init
\* keeps an existing file, the migration an existing table): the table may hold
\* the tokens stored before.
StoredBefore == {[name |-> n, token |-> "t0"] : n \in TokenNames}

\* The token commands as the front end invokes them.  save_token_store is not
\* among the steps: save_token_query never leaves a call at "store", the database
\* rejecting InsertToken (its conflict target is no column of the table).
TokenCommands(slots) ==
    \E c \in slots :
        \/ \E name \in TokenNames : get_token(c, name)
        \/ \E o \in {"ok", "db_err"} : get_token_query(c, o)
        \/ get_token_store(c)
        \/ \E name \in TokenNames, t \in TokenValues : save_token(c, name, t)
        \/ \E o \in {"ok", "db_err"} : save_token_query(c, o)
        \/ \E name \in TokenNames : remove_token(c, name)
        \/ \E o \in {"ok", "db_err"} : remove_token_query(c, o)
        \/ remove_token_store(c)

\* Sequential use of the token commands, from process start.
InitTokenSeq ==
    /\ calls = [c \in {1} |-> IdleCall]
    /\ storeInit = FALSE
    /\ faults = TokenFaults
    /\ dirs = {}
    /\ disk = [p \in Projects |-> NoFiles]
    /\ db = {}
    /\ hist = [p \in Projects |-> NoHist]
    /\ MOETRAN_TOKEN = None
    /\ POPRAKO_TOKEN = None
    /\ tokens \in SUBSET StoredBefore
    /\ tcalls = [c \in {1} |-> IdleTokenCall]
    /\ guards = [g \in {} |-> 0]
    /\ log = <<>>

NextTokenSeq ==
    \/ TokenCommands({1})
    \/ LocalStorage_init

SpecTokenSeq == InitTokenSeq /\ [][NextTokenSeq]_vars

\* Concurrent use: the token commands of two front-end invocations at a time,
\* the store initialised.
InitToken ==
    /\ calls = [c \in {1} |-> IdleCall]
    /\ storeInit = TRUE
    /\ faults = TokenFaults
    /\ dirs = {}
    /\ disk = [p \in Projects |-> NoFiles]
    /\ db = {}
    /\ hist = [p \in Projects |-> NoHist]
    /\ MOETRAN_TOKEN = None
    /\ POPRAKO_TOKEN = None
    /\ tokens \in SUBSET StoredBefore
    /\ tcalls = [c \in {1, 2} |-> IdleTokenCall]
    /\ guards = [g \in {} |-> 0]
    /\ log = <<>>

NextToken == TokenCommands({1, 2})

SpecToken == InitToken /\ [][NextToken]_vars

-----------------------------------------------------------------------------
(* WarnDefer (defer.rs) *)

\* The contents the commands give their guards (user.rs, team.rs)
Contents == {"user.info.request", "user.teams.request"}

\* WarnDefer::new(content); succeeded and dropped are history: success() has been
\* called on the value, the value has gone out of scope.
WarnDefer_new(content) ==
    LET g == Cardinality(DOMAIN guards) + 1
    IN  /\ g <= MaxGuards
        /\ guards' = [h \in DOMAIN guards \cup {g} |->
                         IF h = g
                         THEN [failed |-> TRUE, content |-> content,
                               succeeded |-> FALSE, dropped |-> FALSE]
                         ELSE guards[h]]
        /\ UNCHANGED <<cache, storeInit, faults, MOETRAN_TOKEN, POPRAKO_TOKEN, tokens,
                       tcalls, log>>

\* defer.success()
success(g) ==
    /\ g \in DOMAIN guards
    /\ ~guards[g].dropped
    /\ guards' = [guards EXCEPT ![g].failed = FALSE, ![g].succeeded = TRUE]
    /\ UNCHANGED <<cache, storeInit, faults, MOETRAN_TOKEN, POPRAKO_TOKEN, tokens,
                   tcalls, log>>

\* (mutant) the warning is emitted whatever the flag
WarnsAlways(guard) == TRUE

\* if self.failed
Warns(guard) == guard.failed

\* Drop::drop, when the scope of the value ends (by return, by `?`, or because
\* the command's future is dropped)
drop(g) ==
    /\ g \in DOMAIN guards
    /\ ~guards[g].dropped
    /\ guards' = [guards EXCEPT ![g].dropped = TRUE]
    /\ log' = IF Warns(guards[g])
              THEN Append(log, [guard |-> g, message |-> <<guards[g].content, ".interupted">>])
              ELSE log
    /\ UNCHANGED <<cache, storeInit, faults, MOETRAN_TOKEN, POPRAKO_TOKEN, tokens, tcalls>>

\* Guards: up to MaxGuards commands create their guard, call success() on it or
\* not, and leave its scope, in any interleaving.
InitDefer ==
    /\ calls = [c \in {1} |-> IdleCall]
    /\ storeInit = TRUE
    /\ faults = 0
    /\ dirs = {}
    /\ disk = [p \in Projects |-> NoFiles]
    /\ db = {}
    /\ hist = [p \in Projects |-> NoHist]
    /\ InitOthers

NextDefer ==
    \/ \E content \in Contents : WarnDefer_new(content)
    \/ \E g \in 1..MaxGuards : success(g)
    \/ \E g \in 1..MaxGuards : drop(g)

SpecDefer == InitDefer /\ [][NextDefer]_vars

-----------------------------------------------------------------------------
(* Claims *)

Slots == DOMAIN calls

Downloads == {c \in Slots : calls[c].op = "download"}

UnitsIn(c, states) == {i \in DOMAIN calls[c].units : calls[c].units[i].st \in states}

\* C1: during a download_project_files call, whatever the number of files to
\* download, at most 5 fetches are in flight (units that hold an admission slot and
\* have not finished download_file_with_retry).
C1_AtMostFiveInFlight ==
    \A c \in Downloads : Cardinality(UnitsIn(c, Running)) <= 5

\* The gate is full and a further unit is waiting for a slot.
C1_Witness ==
    \E c \in Downloads :
        /\ Cardinality(UnitsIn(c, Running)) = 5
        /\ UnitsIn(c, {"waiting"}) # {}

\* C2: every spawned unit eventually reaches a terminal outcome, also with more
\* than 5 units and with failing siblings; the call does not reach the metadata
\* step (the size loop and the upsert) before every unit's outcome is recorded.
C2_AllUnitsFinish ==
    /\ [](\A c \in Downloads :
            calls[c].pc \in {"count", "upsert", "done"} =>
                /\ calls[c].joined = DOMAIN calls[c].units
                /\ UnitsIn(c, Terminal) = DOMAIN calls[c].units)
    /\ (DOMAIN calls[1].units # {}) ~> (UnitsIn(1, Terminal) = DOMAIN calls[1].units)

\* More than 5 units were spawned, one failed, the others went on to succeed and
\* the call has reached the metadata step.
C2_Witness ==
    /\ calls[1].pc = "count"
    /\ Cardinality(DOMAIN calls[1].units) > 5
    /\ UnitsIn(1, {"aborted", "err"}) # {}
    /\ Cardinality(UnitsIn(1, {"ok"})) >= 5

\* C3: download_file_with_retry makes at most 3 attempts and stops at the first
\* success: Ok after n attempts has n - 1 delays behind it, a recorded failure
\* comes after exactly 3 attempts and 2 delays (none after the last attempt), and
\* a finished unit makes no further attempt.
C3_RetryBudget ==
    /\ [](\A c \in Downloads : \A i \in DOMAIN calls[c].units :
            LET u == calls[c].units[i]
            IN  /\ u.att <= 3
                /\ u.st = "ok" => u.slept = u.att - 1
                /\ u.st = "err" => u.att = 3 /\ u.slept = 2)
    /\ [][\A c \in Downloads : \A i \in DOMAIN calls[c].units :
            (calls[c].units[i].st \in {"ok", "err"} /\ calls'[c].pc # "scan")
                => calls'[c].units[i] = calls[c].units[i]]_vars

\* A fetch failed twice and succeeded the third time: Ok after 3 attempts, 2 delays.
C3_Witness ==
    \E c \in Downloads : \E i \in DOMAIN calls[c].units :
        LET u == calls[c].units[i]
        IN  u.st = "ok" /\ u.att = 3 /\ u.slept = 2

\* The inverse of base64 STANDARD encoding.
RECURSIVE Base64Decode(_)
Base64Decode(s) ==
    IF Len(s) = 0 THEN <<>>
    ELSE (IF s[3] = Pad THEN <<s[1] * 4 + s[2] \div 16>>
          ELSE IF s[4] = Pad
               THEN <<s[1] * 4 + s[2] \div 16, (s[2] % 16) * 16 + s[3] \div 4>>
          ELSE <<s[1] * 4 + s[2] \div 16, (s[2] % 16) * 16 + s[3] \div 4,
                 (s[3] % 4) * 64 + s[4]>>)
         \o Base64Decode(SubSeq(s, 5, Len(s)))

\* The download_project_files calls that have returned with a result derived
\* from the file outcomes.
Returned == {c \in Downloads : calls[c].pc = "done" /\ calls[c].ret \in {"ok", "err_partial"}}

RowsOf(p) == get_cached_project_metadata(db, p)

\* C4 (as claimed): when a call on an empty cache returns and exactly one index
\* failed after exhausting its retries, the other files are on disk, the persisted
\* record has status failed and counts exactly those other files, and the call
\* returned Err.
C4_PartialFailure ==
    \A c \in Returned :
        LET call == calls[c]
            p == call.proj
            good == UnitsIn(c, {"ok"})
            paths == {FilePath(i, At(call.files, i)) : i \in good}
        IN  (/\ call.before = NoFiles
             /\ Cardinality(UnitsIn(c, {"err"})) = 1
             /\ good = Indices(call.files) \ UnitsIn(c, {"err"}))
            => /\ paths \subseteq DOMAIN disk[p]
               /\ call.ret = "err_partial"
               /\ \A r \in RowsOf(p) :
                     /\ r.status = "failed"
                     /\ r.file_count = Cardinality(good)
                     /\ r.total_size_bytes = SumLen(disk[p], paths)

\* C5: a second download_project_files with the list of a first one that returned
\* Ok leaves the directory as the first one left it and fetches nothing; no call
\* fetches an index whose file is present.
C5_Idempotent ==
    \A c \in Downloads :
        LET call == calls[c]
        IN  call.pc \in {"join", "count", "upsert", "done"} /\ call.ret # "err_mkdir" =>
            /\ \A i \in Indices(call.files) :
                  FilePath(i, At(call.files, i)) \in DOMAIN call.before
                      => i \notin DOMAIN call.units
            /\ call.prev = [files |-> call.files, ret |-> "ok"] =>
                  /\ call.units = IdleCall.units
                  /\ disk[call.proj] = call.before

\* The second of two calls with the same two-file list has returned.
C5_Witness ==
    \E c \in Returned :
        /\ Len(calls[c].files) = 2
        /\ calls[c].prev = [files |-> calls[c].files, ret |-> "ok"]

\* C6 (as claimed): once a call has returned, for every index it fetched
\* successfully load_cached_file returns the fetched bytes (after base64 decoding)
\* and the content type of the URL's extension, whichever matching entry the
\* directory iteration yields first and whatever was in the directory before.
C6_RoundTrip ==
    \A c \in Returned : \A i \in UnitsIn(c, {"ok"}) :
        \A name \in Matches(calls[c].proj, i) :
            LET data == CachedFileData(calls[c].proj, name)
                url == At(calls[c].files, i)
            IN  /\ Base64Decode(data.b64) = Body(url)
                /\ data.content_type = get_content_type(get_extension(url))

\* C7 (as claimed, read in the claim's favour: an Err from the read is not held
\* against it): after delete_file_cache(p) returned Ok with nothing else run on p
\* since, check_file_cache(p) answers false and get_cached_project_info(p) finds
\* no record.
C7_DeletedIsGone ==
    \A p \in Projects :
        hist[p].deleted =>
            /\ ~CacheDirExists(p)
            /\ CachedProjectInfo(p, "ok").out = {}

\* C8 (as claimed): a record for p exists iff a download attempt for p has
\* completed and p has not been deleted since.
C8_RecordIffAttempted ==
    \A p \in Projects : (RowsOf(p) # {}) <=> hist[p].attempted

\* C9 (as claimed): the record a call writes counts the files present in the
\* directory and sums their sizes.
C9_CountsAreDirectory ==
    \A c \in Returned :
        calls[c].wrote =>
            \A r \in RowsOf(calls[c].proj) :
                /\ r.file_count = Cardinality(DOMAIN disk[calls[c].proj])
                /\ r.total_size_bytes =
                      SumLen(disk[calls[c].proj], DOMAIN disk[calls[c].proj])

\* C10 (as claimed): a project directory holds at most one file per index.
C10_OneFilePerIndex ==
    \A p \in Projects : \A n, m \in DOMAIN disk[p] : n[1] = m[1] => n = m

\* The attempts that are between File::create and the end of write_all.
Writing(p) ==
    UNION {{FilePath(i, At(calls[c].files, i)) : i \in UnitsIn(c, {"write"})} :
              c \in {d \in Downloads : calls[d].proj = p}}

\* C11 (as claimed): download_file never partially commits: a file of a cache
\* directory that no attempt is writing at the moment holds the complete bytes of
\* one successful fetch; a failed attempt leaves no truncated or empty file.
C11_NoPartialCommit ==
    \A p \in Projects : \A n \in DOMAIN disk[p] \ Writing(p) :
        \E url \in {PngUrl, JpgUrl} :
            n[2] = get_extension(url) /\ disk[p][n] = Body(url)

\* C12 (as claimed): a metadata-store failure is not fatal for
\* download_project_files: once the directory has been created the call returns Ok
\* exactly when no unit failed and Err for the failed files exactly when one did,
\* whether the store is uninitialised or the upsert fails.
C12_StoreFailureNonFatal ==
    \A c \in Downloads :
        calls[c].pc = "done" /\ calls[c].ret # "err_mkdir" =>
            calls[c].ret = (IF UnitsIn(c, {"err", "aborted"}) = {} THEN "ok" ELSE "err_partial")

ReadOps == {"info", "list"}

\* A step in which a read command runs in slot c.
ReadStep(c) == Free(c) /\ calls'[c].op \in ReadOps /\ storeInit' = storeInit

\* C13: get_all_cached_projects_list and get_cached_project_info return an error
\* whenever LOCAL_STORAGE is unset or the query fails, never an empty list or None
\* in its place; whenever the store is set and the query works they return the
\* stored rows, whatever the same call returned before.
C13_ReadsFailWithoutStore ==
    [][\A c \in Slots :
        ReadStep(c) =>
            /\ ~storeInit => calls'[c].ret = "err_uninit"
            /\ storeInit /\ faults' < faults => calls'[c].ret = "err_db"
            /\ storeInit /\ faults' = faults =>
                  /\ calls'[c].ret = "ok"
                  /\ calls'[c].op = "info" =>
                        calls'[c].out = {x \in db : x.project_id = calls'[c].proj}
                  /\ calls'[c].op = "list" =>
                        {calls'[c].out[k] : k \in DOMAIN calls'[c].out} = db]_vars

\* A read that failed while LOCAL_STORAGE was unset is repeated after the store
\* became available and finds the record an earlier run left.
C13_Witness ==
    \E c \in Slots :
        /\ calls[c].op = "info"
        /\ calls[c].ret = "ok"
        /\ calls[c].out # {}
        /\ calls[c].prev.ret = "err_uninit"

\* C14: the recorded status is completed or failed only; a call that writes a
\* record sets it to failed iff at least one unit of that call failed and to
\* completed otherwise, overwriting whatever an earlier call recorded.
C14_StatusLifecycle ==
    /\ \A r \in db : r.status \in {"completed", "failed"}
    /\ \A c \in Returned :
          calls[c].wrote =>
              /\ RowsOf(calls[c].proj) # {}
              /\ \A r \in RowsOf(calls[c].proj) :
                    r.status = IF UnitsIn(c, {"err", "aborted"}) # {}
                               THEN "failed" ELSE "completed"

\* Failed becomes Completed: a call that returned Err is repeated with the same
\* list, fetches what was missing and records completed.
C14_Witness ==
    \E c \in Returned :
        /\ calls[c].wrote
        /\ calls[c].prev = [files |-> calls[c].files, ret |-> "err_partial"]
        /\ DOMAIN calls[c].units # {}
        /\ \E r \in RowsOf(calls[c].proj) : r.status = "completed"

\* C15: check_file_cache(p) returns true iff the cache directory of p exists,
\* whatever the directory holds and whatever the metadata says; in particular it
\* returns true after a download_project_files that got past create_dir_all, even
\* with an empty list or with every file failing.
C15_CheckIsDirExists ==
    \A c \in Slots :
        calls[c].op = "check" =>
            /\ calls[c].ret = "ok"
            /\ calls[c].out = <<calls[c].proj \in dirs>>
            /\ hist[calls[c].proj].prev.ret \in {"ok", "err_partial"} =>
                  calls[c].out = <<TRUE>>

\* check_file_cache answers true after a call whose every file failed: the
\* directory holds no file.
C15_Witness ==
    \E c \in Slots :
        /\ calls[c].op = "check"
        /\ calls[c].out = <<TRUE>>
        /\ hist[calls[c].proj].prev.ret = "err_partial"
        /\ disk[calls[c].proj] = NoFiles

Metadata(c) ==
    [project_id |-> calls[c].proj, project_name |-> calls[c].name,
     status |-> IF UnitsIn(c, {"err", "aborted"}) # {} THEN "failed" ELSE "completed",
     file_count |-> calls[c].file_count,
     total_size_bytes |-> calls[c].total_size_bytes,
     cached_at |-> calls[c].cached_at]

\* C17: the store holds at most one record per project_id; after upsert(r) the
\* record of r.project_id equals r in every field, whatever it was before; the
\* records of other projects are as they were.
C17_UpsertOverwrites ==
    /\ [](\A p \in Projects : Cardinality(RowsOf(p)) <= 1)
    /\ [](\A c \in Returned : calls[c].wrote => RowsOf(calls[c].proj) = {Metadata(c)})
    /\ [][\A c \in Slots :
            calls[c].op = "download" /\ calls[c].pc = "upsert" =>
                {x \in db' : x.project_id # calls[c].proj}
                    = {x \in db : x.project_id # calls[c].proj}]_vars

\* A record is overwritten with another name and another time while the store
\* holds a record of the other project.
C17_Witness ==
    \E c \in Returned :
        /\ calls[c].wrote
        /\ \E old \in calls[c].replaced :
              /\ old.project_name # calls[c].name
              /\ old.cached_at # calls[c].cached_at
        /\ \E x \in db : x.project_id # calls[c].proj

\* C18: get_all_cached_projects returns exactly the stored records, one per
\* project, ordered by cached_at descending.
C18_ListOrdered ==
    \A c \in Slots :
        calls[c].op = "list" /\ calls[c].ret = "ok" =>
            LET s == calls[c].out
            IN  /\ Len(s) = Cardinality(db)
                /\ {s[k] : k \in DOMAIN s} = db
                /\ \A i, j \in DOMAIN s : s[i].project_id = s[j].project_id => i = j
                /\ \A i \in 1..(Len(s) - 1) : s[i].cached_at >= s[i + 1].cached_at

\* Two records of different times are listed, the later one first.
C18_Witness ==
    \E c \in Slots :
        /\ calls[c].op = "list" /\ calls[c].ret = "ok"
        /\ Len(calls[c].out) = 2
        /\ calls[c].out[1].cached_at > calls[c].out[2].cached_at

\* C19 (as claimed): delete_file_cache(p) that returned Ok has removed the cache
\* directory of p with everything in it, or found none, and in both cases has
\* deleted the metadata record of p.
C19_DeleteDirThenRecord ==
    \A c \in Slots :
        calls[c].op = "delete" /\ calls[c].pc = "done" /\ calls[c].ret = "ok" =>
            /\ calls[c].proj \notin dirs
            /\ disk[calls[c].proj] = NoFiles
            /\ RowsOf(calls[c].proj) = {}

Moved(c) ==
    \/ calls'[c].op # calls[c].op
    \/ calls'[c].pc # calls[c].pc
    \/ calls'[c].units # calls[c].units

\* The step changes the cache directory or the metadata record of project q.
Touches(q) ==
    \/ disk'[q] # disk[q]
    \/ (q \in dirs') # (q \in dirs)
    \/ {x \in db' : x.project_id = q} # {x \in db : x.project_id = q}

\* C21: a step of download_project_files, delete_file_cache or load_cached_file
\* on project p leaves the cache directory and the metadata record of every other
\* project as they were, in every interleaving.
C21_ProjectsIsolated ==
    [][\A c \in Slots : Moved(c) =>
          \A q \in Projects \ {calls'[c].proj} : ~Touches(q)]_vars

\* delete_file_cache(p2) has returned while a download of p1 is between its
\* units and its record: the files and the record of p1 are in place.
C21_Witness ==
    /\ calls[2].op = "delete" /\ calls[2].pc = "done"
    /\ calls[1].op = "download" /\ calls[1].pc = "upsert"
    /\ disk["p1"] # NoFiles
    /\ RowsOf("p1") # {}

\* The part of a URL before its query string.
PathOf(url) ==
    LET marks == {i \in DOMAIN url : url[i] = "?"}
    IN  IF marks = {} THEN url ELSE SubSeq(url, 1, Min(marks) - 1)

\* The image extension a path ends in, jpg when it ends in none.
PathExtension(path) ==
    IF EndsWith(path, ".png") THEN "png"
    ELSE IF EndsWith(path, ".jpeg") THEN "jpeg"
    ELSE IF EndsWith(path, ".webp") THEN "webp"
    ELSE "jpg"

\* C22 (as claimed): the file of a URL is named with the extension of the URL's
\* path (png, jpg, jpeg or webp when the path ends in it, jpg otherwise), also
\* when the query string ends in another image suffix.
C22_ExtensionOfPath ==
    \A c \in Downloads : \A n \in DOMAIN disk[calls[c].proj] :
        n[2] = PathExtension(PathOf(At(calls[c].files, n[1])))

\* The calls that found the file of every index of their list (or an empty
\* list) and have returned.
NothingToDo ==
    {c \in Downloads :
        /\ calls[c].pc = "done" /\ calls[c].ret # "err_mkdir"
        /\ \A i \in Indices(calls[c].files) :
              FilePath(i, At(calls[c].files, i)) \in DOMAIN calls[c].before}

\* C23 (as claimed): a call that finds the file of every index in place spawns no
\* unit, fetches nothing, has any_failed false, records status completed when the
\* store is there, and returns Ok.
C23_NothingToDownload ==
    \A c \in NothingToDo :
        /\ calls[c].units = IdleCall.units
        /\ disk[calls[c].proj] = calls[c].before
        /\ ~calls[c].download_failed
        /\ calls[c].wrote => \A r \in RowsOf(calls[c].proj) : r.status = "completed"
        /\ calls[c].ret = "ok"

\* C24: a unit whose task join fails counts like a unit that exhausted its
\* retries: the call has any_failed set, records status failed and returns Err;
\* the unit does not keep an admission slot and its siblings still run to their
\* own outcome.
C24_JoinFailureCounts ==
    \A c \in Downloads :
        /\ calls[c].pc # "scan" /\ calls[c].ret # "err_mkdir" =>
              calls[c].permits + Cardinality(UnitsIn(c, Running)) = CONCURRENT_DOWNLOADS
        /\ calls[c].pc = "done" /\ UnitsIn(c, {"aborted"}) # {} =>
              /\ calls[c].download_failed
              /\ calls[c].ret \in {"err_partial", "err_db"}
              /\ calls[c].wrote => \A r \in RowsOf(calls[c].proj) : r.status = "failed"
              /\ UnitsIn(c, {"ok", "err"}) = DOMAIN calls[c].units \ UnitsIn(c, {"aborted"})

\* A task that held a slot was aborted while the gate was full; the sixth unit
\* got a slot, every sibling succeeded and the call returned Err.
C24_Witness ==
    \E c \in Downloads :
        /\ calls[c].pc = "done" /\ calls[c].ret = "err_partial"
        /\ Cardinality(UnitsIn(c, {"aborted"})) = 1
        /\ Cardinality(UnitsIn(c, {"ok"})) = CONCURRENT_DOWNLOADS
        /\ \E r \in RowsOf(calls[c].proj) : r.status = "failed"

\* The step writes the metadata record of the call in slot c.
WritesRecord(c) ==
    /\ calls[c].op = "download"
    /\ db' # db \/ (calls'[c].wrote /\ ~calls[c].wrote)

\* C25: a call writes its metadata record at most once, in its last step, after
\* every unit has finished and been joined and after file_count and
\* total_size_bytes were recomputed from the disk; never while a unit is in
\* flight.
C25_RecordWrittenOnceAtEnd ==
    [][\A c \in Slots : WritesRecord(c) =>
          /\ calls[c].pc = "upsert" /\ calls'[c].pc = "done"
          /\ ~calls[c].wrote
          /\ UnitsIn(c, Terminal) = DOMAIN calls[c].units
          /\ calls[c].joined = DOMAIN calls[c].units
          /\ calls[c].file_count = Cardinality(Counted(calls[c].proj, calls[c].files))
          /\ \E r \in db' : /\ r.project_id = calls[c].proj
                            /\ r.file_count = calls[c].file_count
                            /\ r.total_size_bytes = calls[c].total_size_bytes]_vars

\* The record of a call of 6 units has been written, all units finished.
C25_Witness ==
    \E c \in Returned :
        /\ calls[c].wrote
        /\ Cardinality(DOMAIN calls[c].units) > CONCURRENT_DOWNLOADS
        /\ UnitsIn(c, Terminal) = DOMAIN calls[c].units
        /\ RowsOf(calls[c].proj) # {}

\* The file a unit is creating or writing.
Target(c, i) == FilePath(i, At(calls[c].files, i))

\* C26: within one call the units have pairwise different target files, and a
\* step that creates or changes a file is a step of the unit whose target it is.
C26_DisjointFiles ==
    /\ [](\A c \in Downloads : \A i, j \in DOMAIN calls[c].units :
            Target(c, i) = Target(c, j) => i = j)
    /\ [][\A p \in Projects : \A n \in DOMAIN disk'[p] :
            (n \notin DOMAIN disk[p] \/ disk'[p][n] # disk[p][n]) =>
                \E c \in Downloads : \E i \in UnitsIn(c, {"fetch", "write"}) :
                    /\ calls[c].proj = p
                    /\ Target(c, i) = n
                    /\ calls'[c].units[i] # calls[c].units[i]]_vars

\* Two units of the call are writing their files at the same time.
C26_Witness ==
    \E c \in Downloads : \E i, j \in UnitsIn(c, {"write"}) :
        /\ i # j
        /\ {Target(c, i), Target(c, j)} \subseteq DOMAIN disk[calls[c].proj]

\* C27: a unit takes one admission slot before its first attempt, keeps it
\* through its attempts and retry delays and gives it back when it ends in
\* success or exhausted retries; once every unit of a call has ended all 5 slots
\* are free, and no unit waits for a slot forever.
C27_PermitLifecycle ==
    /\ [](\A c \in Downloads :
            calls[c].pc # "scan" /\ calls[c].ret # "err_mkdir" =>
                /\ calls[c].permits >= 0
                /\ calls[c].permits + Cardinality(UnitsIn(c, Running)) = 5
                /\ \A i \in DOMAIN calls[c].units :
                      (calls[c].units[i].st = "waiting") <=> (calls[c].units[i].att = 0)
                /\ UnitsIn(c, Terminal) = DOMAIN calls[c].units => calls[c].permits = 5)
    /\ (UnitsIn(1, {"waiting"}) # {}) ~> (UnitsIn(1, {"waiting"}) = {})

\* A unit sleeps before its retry holding its slot while the gate is full and
\* another unit waits.
C27_Witness ==
    \E c \in Downloads :
        /\ UnitsIn(c, {"sleep"}) # {}
        /\ UnitsIn(c, {"waiting"}) # {}
        /\ calls[c].permits = 0

\* C28: when create_dir_all fails download_project_files returns the error at
\* once: no unit is spawned, no file is written and no metadata record is created
\* or overwritten.
C28_MkdirFailure ==
    /\ [](\A c \in Downloads :
            calls[c].ret = "err_mkdir" =>
                /\ calls[c].pc = "done"
                /\ calls[c].units = IdleCall.units
                /\ disk[calls[c].proj] = calls[c].before
                /\ ~calls[c].wrote)
    /\ [][\A c \in Slots :
            calls[c].ret # "err_mkdir" /\ calls'[c].ret = "err_mkdir" =>
                db' = db /\ disk' = disk /\ dirs' = dirs]_vars

\* create_dir_all failed for a project that has a record and files from an
\* earlier call: they are as they were.
C28_Witness ==
    \E c \in Downloads :
        /\ calls[c].ret = "err_mkdir"
        /\ RowsOf(calls[c].proj) # {}
        /\ disk[calls[c].proj] # NoFiles

\* C29: when a call has written a record with status completed, file_count equals
\* the length of the requested list and every index of the list has its file on
\* disk.
C29_CompletedMeansAll ==
    \A c \in Returned :
        calls[c].wrote =>
            \A r \in RowsOf(calls[c].proj) :
                r.status = "completed" =>
                    /\ r.file_count = Len(calls[c].files)
                    /\ \A i \in Indices(calls[c].files) :
                          Target(c, i) \in DOMAIN disk[calls[c].proj]

\* A two-file list is completed by a call that found one file in place and
\* fetched the other.
C29_Witness ==
    \E c \in Returned :
        /\ calls[c].wrote
        /\ Len(calls[c].files) = 2
        /\ Cardinality(DOMAIN calls[c].units) = 1
        /\ \E r \in RowsOf(calls[c].proj) : r.status = "completed" /\ r.file_count = 2

\* C30: a call that has written a record returned Err iff the record says failed
\* and Ok iff it says completed, and the record's file_count lies between 0 and
\* the length of the requested list.
C30_RecordMatchesReturn ==
    \A c \in Downloads :
        calls[c].pc = "done" /\ calls[c].wrote =>
            /\ RowsOf(calls[c].proj) # {}
            /\ \A r \in RowsOf(calls[c].proj) :
                  /\ (calls[c].ret = "err_partial") <=> (r.status = "failed")
                  /\ (calls[c].ret = "ok") <=> (r.status = "completed")
                  /\ r.status \in {"failed", "completed"}
                  /\ 0 <= r.file_count /\ r.file_count <= Len(calls[c].files)

\* A call returned Err and its record says failed with one of two files counted.
C30_Witness ==
    \E c \in Downloads :
        /\ calls[c].pc = "done" /\ calls[c].wrote
        /\ calls[c].ret = "err_partial"
        /\ \E r \in RowsOf(calls[c].proj) : r.status = "failed" /\ r.file_count = 1

\* C31 (as claimed): load_cached_file running concurrently with
\* download_project_files on the same project never returns Ok with anything but
\* the complete fetched bytes of that index: it fails with not-found or returns
\* the full file, never the empty file seen between File::create and write_all.
C31_LoadSeesWholeFiles ==
    \A c \in Slots :
        calls[c].op = "load" /\ calls[c].ret = "ok" =>
            \E d \in Downloads :
                /\ calls[d].proj = calls[c].proj
                /\ calls[c].index \in Indices(calls[d].files)
                /\ calls[c].out[1].b64 =
                      Base64Encode(Body(At(calls[d].files, calls[c].index)))

\* Both slots have run download_project_files and both calls have returned.
BothReturned ==
    \A c \in Slots : calls[c].op = "download" /\ calls[c].pc = "done"

\* The record and the files of project p are those of a finished download of files.
AllInPlace(p, files) ==
    /\ RowsOf(p) # {}
    /\ \A r \in RowsOf(p) :
          /\ r.status = "completed"
          /\ r.file_count = Cardinality(Counted(p, files))
    /\ \A i \in Indices(files) :
          /\ FilePath(i, At(files, i)) \in DOMAIN disk[p]
          /\ disk[p][FilePath(i, At(files, i))] = Body(At(files, i))

\* The existence scan of slot c runs in this step.
Scans(c) == calls[c].op = "download" /\ calls[c].pc = "scan" /\ calls'[c].pc # "scan"

\* C32 (as claimed): two download_project_files calls for the same project and
\* file list, run concurrently with no fetch failing: once both have returned
\* the record is completed with file_count the number of listed files on disk
\* and every listed file holds its complete bytes; and the scan of a call never
\* skips an index whose file the other call has created but not yet written.
C32_ConcurrentDownloads ==
    /\ [](BothReturned => AllInPlace("p1", RaceList))
    /\ [][\A c \in Slots : Scans(c) =>
              \A i \in Indices(calls[c].files) \ DOMAIN calls'[c].units :
                  disk[calls[c].proj][FilePath(i, At(calls[c].files, i))]
                      = Body(At(calls[c].files, i))]_vars

\* C33 (as claimed): delete_file_cache(p) run concurrently with
\* download_project_files(p): once both have returned the state is not orphaned,
\* a record of p exists only if the cache directory of p exists and its
\* file_count is the number of listed files on disk.
C33_DeleteDuringDownload ==
    \A c, d \in Slots :
        /\ calls[c].op = "download" /\ calls[c].pc = "done"
        /\ calls[d].op = "delete" /\ calls[d].pc = "done"
        /\ calls[c].proj = calls[d].proj
        => LET p == calls[c].proj
           IN  /\ RowsOf(p) # {} => p \in dirs
               /\ \A r \in RowsOf(p) :
                     r.file_count = Cardinality(Counted(p, calls[c].files))

AllReadOps == {"check", "load", "list", "info"}

\* A step in which slot c runs one of the four read commands.
RunsRead(c) == Free(c) /\ calls'[c].op \in AllReadOps

\* C34: check_file_cache, load_cached_file, get_all_cached_projects_list and
\* get_cached_project_info are read-only: whether they return Ok or Err, no cache
\* directory, cached file or metadata record changes.
C34_ReadsAreReadOnly ==
    [][\A c \in Slots : RunsRead(c) =>
          /\ dirs' = dirs
          /\ disk' = disk
          /\ db' = db]_vars

\* A read has failed on a project that has a directory, a file and a record,
\* all still in place.
C34_Witness ==
    \E c \in Slots :
        /\ calls[c].op \in AllReadOps
        /\ calls[c].ret \in {"err_db", "err_notfound"}
        /\ "p1" \in dirs
        /\ disk["p1"] # NoFiles
        /\ RowsOf("p1") # {}

\* The token the table holds under name: None or Some(token)
Stored(name) ==
    LET found == {r \in tokens : r.name = name}
    IN  IF found = {} THEN None ELSE Some((CHOOSE r \in found : TRUE).token)

\* C35 (as claimed): the token cache under sequential use.  save_*_token(t)
\* writes the database first and the static second: it fails only when the store
\* is unset or the database fails, and then leaves the static unchanged; after a
\* successful save the static is Some(t) and get_*_token answers it without a
\* query; after a successful remove the static is None.
C35_SaveThenCache ==
    \A c \in DOMAIN tcalls :
        LET call == tcalls[c]
        IN  /\ call.op = "save" /\ call.pc = "store" =>
                  /\ Stored(call.name) = Some(call.token)
                  /\ Static(call.name) = call.before
            /\ call.op = "save" /\ call.pc = "done" =>
                  /\ call.ret \in {"ok", "err_uninit", "err_db"}
                  /\ call.ret = "ok" => Static(call.name) = Some(call.token)
                  /\ call.ret # "ok" => Static(call.name) = call.before
            /\ call.op = "get" /\ call.pc = "done" /\ call.before # None =>
                  /\ call.ret = "ok"
                  /\ call.out = call.before
                  /\ ~call.queried
            /\ call.op = "remove" /\ call.pc = "done" /\ call.ret = "ok" =>
                  Static(call.name) = None

\* Every token command has returned, and at least one has run in every slot.
AllTokenCallsReturned ==
    \A c \in DOMAIN tcalls : tcalls[c].op # "idle" /\ tcalls[c].pc = "done"

Warned(g) == {k \in DOMAIN log : log[k].guard = g}

\* C37: a WarnDefer guard emits its interruption warning when its scope ends iff
\* success() was not called on it before: it starts failed, success() clears the
\* flag and nothing sets it back; it warns at most once, and never while in scope.
C37_WarnsUnlessSuccess ==
    \A g \in DOMAIN guards :
        /\ guards[g].failed = ~guards[g].succeeded
        /\ Warned(g) # {} <=> (guards[g].dropped /\ ~guards[g].succeeded)
        /\ Cardinality(Warned(g)) <= 1
        /\ \A k \in Warned(g) : log[k].message = <<guards[g].content, ".interupted">>

\* One guard went out of scope without success() and warned; another had
\* success() called, went out of scope and stayed silent.
C37_Witness ==
    \E g, h \in DOMAIN guards :
        /\ guards[g].dropped /\ ~guards[g].succeeded /\ Warned(g) # {}
        /\ guards[h].dropped /\ guards[h].succeeded /\ Warned(h) = {}
====
